---- MODULE Spec2Model ----
(***************************************************************************)
(* Happy Stacks task guards (.edison/packs/happy-stacks/guards/task.py).   *)
(*                                                                         *)
(* can_start_task / can_finish_task delegate to a builtin predicate, load  *)
(* the acting task's front-matter and then evaluate four rule-checkers.    *)
(* The checkers are pure functions of the call context, the front-matter,  *)
(* the process environment and the task repository's answers; they are    *)
(* operators here, and the guard is a process whose steps are the calls    *)
(* the entry point makes, in the order it makes them.                      *)
(*                                                                         *)
(* Values.  A front-matter field read as `str(fm.get(k) or "").strip()`    *)
(* is a string, "" standing for a missing, None or empty value (the `or`   *)
(* makes them one).  `components` keeps its type (list, str or other);     *)
(* a str is held as its comma-separated pieces.  A path is the sequence of *)
(* its tokens (separators included), so that replace() and `in` are        *)
(* computed.  A result is a return value or a raised error.                *)
(***************************************************************************)
EXTENDS Integers, Sequences, FiniteSets, TLC

VARIABLES
    guard,      \* the entry point called: "start" (can_start_task) or "finish"
    ctx,        \* the call context mapping
    pc,         \* the entry point's position
    base,       \* what the builtin predicate did: "unset", "true", "false", "raise"
    loaded,     \* what _load_task_frontmatter gave: [kind, fm]
    envStack,   \* HAPPY_STACKS_STACK / HAPPY_LOCAL_STACK as read by the call
    envDirs,    \* the component dir override variables as read by the call
    parentLookup, \* the repository's answers about the parent task
    evaluated,  \* the rule-checkers evaluated so far, in order
    results,    \* their results, in the same order
    repoCalls,  \* the repository calls made so far, in order
    outcome     \* the entry point's result: pending, a return value, a raised error

vars == <<guard, ctx, pc, base, loaded, envStack, envDirs, parentLookup,
          evaluated, results, repoCalls, outcome>>

\* ------------------------------------------------------------------ bounds

\* Longest `components` value (list elements, or pieces of a comma string).
MaxComps == 2
\* Longest `relationships` list.
MaxRels == 2

\* ------------------------------------------------------------------ results

Ret(v) == [kind |-> "return", value |-> v, err |-> "", detail |-> <<>>]
Raise(e, d) == [kind |-> "raise", value |-> FALSE, err |-> e, detail |-> d]
Pending == [kind |-> "pending", value |-> FALSE, err |-> "", detail |-> <<>>]

Passed(r) == r.kind = "return" /\ r.value

\* The errors, one per `raise` of the source.
E_NO_FRONTMATTER == "cannot read task frontmatter"
E_STACK_KEY == "missing required task frontmatter key stack"
E_STACK_CONTEXT == "missing stack context"
E_STACK_MISMATCH == "stack mismatch"
E_KIND_BASE == "missing/invalid hs_kind (base metadata)"
E_BASE_TASK == "missing required task frontmatter key base_task"
E_BASE_WORKTREE == "missing required task frontmatter key base_worktree"
E_KIND_DIRS == "missing/invalid hs_kind (component dirs)"
E_ONE_COMPONENT == "component task must target exactly one component"
E_DECLARE_COMPONENTS == "task must declare component(s)"
E_DIR_MISSING == "missing stack component dir override"
E_NOT_WORKTREE == "component dir is not a worktree path"
E_KIND_STRUCT == "missing/invalid hs_kind (expected parent|track|component)"
E_PARENT_TASK == "refusing to claim/finish a parent task"
E_NO_PARENT_REL == "task must have a parent relationship"
E_PARENT_NOT_FOUND == "parent task not found"
E_TRACK_PARENT_KIND == "track tasks must be children of a parent task"
E_TRACK_NAME == "track task must declare track"
E_TRACK_COMPONENTS == "track task must declare components"
E_COMPONENT_PARENT_KIND == "component tasks must be children of a track task"
E_COMPONENT_STACK == "component task stack must match its track stack"
\* An exception of a collaborator that no handler of this module catches.
E_COLLABORATOR == "exception of a collaborator"

\* ------------------------------------------------------------------ strings

\* str.strip(), on the strings of the model.
Strip(s) ==
    CASE s = " " -> ""
      [] s = " s1 " -> "s1"
      [] s = " Track " -> "Track"
      [] s = " happy " -> "happy"
      [] OTHER -> s

\* str.lower(), on the strings of the model.
Lower(s) ==
    CASE s = "Track" -> "track"
      [] s = "PARENT" -> "parent"
      [] s = "Component" -> "component"
      [] OTHER -> s

\* str.upper(), on the component names of the model.
Upper(s) ==
    CASE s = "happy" -> "HAPPY"
      [] s = "happy-cli" -> "HAPPY-CLI"
      [] s = "happy_cli" -> "HAPPY_CLI"
      [] OTHER -> s

\* str.replace('-', '_'), on the upper-cased component names of the model.
ReplaceDash(s) ==
    CASE s = "HAPPY-CLI" -> "HAPPY_CLI"
      [] OTHER -> s

\* `hs_kind = str(fm.get("hs_kind") or "").strip().lower()`
HsKind(fm) == Lower(Strip(fm.hs_kind))

\* [str(x).strip() for x in v if str(x).strip()]
StripNonEmpty(seq) ==
    SelectSeq([i \in 1..Len(seq) |-> Strip(seq[i])], LAMBDA x : x # "")

\* The component list of a `components` value: a list gives its non-blank
\* elements, a non-blank str its non-blank comma-separated pieces, anything
\* else nothing.  A str is held as its pieces, so `v.strip()` is non-empty
\* when it has a comma (two pieces or more) or its one piece is not blank.
ComponentsOf(v) ==
    IF v.t = "list" THEN StripNonEmpty(v.v)
    ELSE IF v.t = "str" /\ (Len(v.v) > 1 \/ Strip(v.v[1]) # "")
         THEN StripNonEmpty(v.v)
         ELSE <<>>

\* ------------------------------------------------------------------ paths

\* Path tokens: "BS" is a backslash, "/" a slash, " " white space.
PathStrip(p) ==
    LET RECURSIVE Lead(_), Trail(_)
        Lead(q) == IF q # <<>> /\ Head(q) = " " THEN Lead(Tail(q)) ELSE q
        Trail(q) == IF q # <<>> /\ q[Len(q)] = " "
                    THEN Trail(SubSeq(q, 1, Len(q) - 1)) ELSE q
    IN Trail(Lead(p))

\* path.replace("\\", "/")
ReplaceBackslash(p) == [i \in 1..Len(p) |-> IF p[i] = "BS" THEN "/" ELSE p[i]]

WorktreeSegment == <<"/", "components", "/", ".worktrees", "/">>

\* needle in path
Contains(p, needle) ==
    \E i \in 1..(Len(p) - Len(needle) + 1) :
        SubSeq(p, i, i + Len(needle) - 1) = needle

\* `a or b`, on strings / paths: the first when it is truthy (non-empty).
OrElse(a, b, empty) == IF a # empty THEN a ELSE b

\* ------------------------------------------------------------------ context

\* The empty mapping: every key missing.
EmptyFm ==
    [hs_kind |-> "", stack |-> "", base_task |-> "", base_worktree |-> "",
     track |-> "", components |-> [t |-> "none", v |-> <<>>], component |-> "",
     relationships |-> [t |-> "none", v |-> <<>>]]

\* `ctx.get("task_id") or ctx.get("entity_id")`
CtxTaskId(c) == OrElse(c.task_id, c.entity_id, "")

\* The task identifier _load_task_frontmatter resolves ("" when none).
ResolveTaskId(c) ==
    IF CtxTaskId(c) # "" THEN CtxTaskId(c)
    ELSE IF c.task.mapping THEN c.task.id
    ELSE ""

\* _get_project_root: a Path is returned as is, a non-blank str is resolved
\* (a failure gives None), anything else gives None ("" here).
GetProjectRoot(c, resolves) ==
    IF c.project_root.t = "path" THEN c.project_root.v
    ELSE IF c.project_root.t = "str" /\ Strip(c.project_root.v) # ""
         THEN (IF resolves THEN c.project_root.v ELSE "")
         ELSE ""

Call(name, arg) == [call |-> name, arg |-> arg]

\* ------------------------------------------------------------------ loader

\* A behaviour `rd` of the loader's collaborators: whether the project root
\* resolves, whether TaskRepository(...) constructs, whether get_path
\* answers, and what reading and parsing the document gives.
NotLoaded == [kind |-> "unloaded", fm |-> EmptyFm]
LoadNone == [kind |-> "none", fm |-> EmptyFm]
LoadRaise == [kind |-> "raise", fm |-> EmptyFm]
LoadFm(fm) == [kind |-> "fm", fm |-> fm]

\* _load_task_frontmatter
LoadTaskFrontmatter(c, rd) ==
    IF ResolveTaskId(c) = "" THEN LoadNone
    ELSE IF rd.ctor = "raise" THEN LoadRaise
    ELSE IF rd.path = "raise" THEN LoadNone
    ELSE IF rd.doc = "raise" THEN LoadNone
    ELSE IF rd.doc = "dict" THEN LoadFm(rd.fm)
    ELSE LoadFm(EmptyFm)

\* The repository calls _load_task_frontmatter makes.
LoaderCalls(c, rd) ==
    IF ResolveTaskId(c) = "" THEN <<>>
    ELSE <<Call("TaskRepository", GetProjectRoot(c, rd.root))>>
         \o (IF rd.ctor = "raise" THEN <<>>
             ELSE <<Call("get_path", ResolveTaskId(c))>>)

\* ------------------------------------------------------------------ StackContext

\* Faulty variant: the legacy alias is not consulted.
StackEnvNoLegacy(env) == Strip(env.primary)

\* The environment's stack name as the code reads it:
\* str(environ.get(PRIMARY) or environ.get(LEGACY) or "").strip()
StackEnv(env) == Strip(OrElse(env.primary, env.legacy, ""))

\* Faulty variant: a stack mismatch is reported as False instead of raised.
RequireStackContextSilent(c, fm, env) ==
    IF HsKind(fm) = "parent" THEN Ret(TRUE)
    ELSE IF Strip(fm.stack) = "" THEN Raise(E_STACK_KEY, <<>>)
    ELSE IF StackEnv(env) = "" THEN Raise(E_STACK_CONTEXT, <<Strip(fm.stack)>>)
    ELSE Ret(StackEnv(env) = Strip(fm.stack))

\* Faulty variant: no exemption for parent tasks.
RequireStackContextNoExempt(c, fm, env) ==
    IF Strip(fm.stack) = "" THEN Raise(E_STACK_KEY, <<>>)
    ELSE IF StackEnv(env) = "" THEN Raise(E_STACK_CONTEXT, <<Strip(fm.stack)>>)
    ELSE IF StackEnv(env) # Strip(fm.stack)
         THEN Raise(E_STACK_MISMATCH, <<StackEnv(env), Strip(fm.stack)>>)
    ELSE Ret(TRUE)

\* _require_stack_context
RequireStackContext(c, fm, env) ==
    IF HsKind(fm) = "parent" THEN Ret(TRUE)
    ELSE LET stack_env == StackEnv(env)
             stack_task == Strip(fm.stack)
         IN IF stack_task = "" THEN Raise(E_STACK_KEY, <<>>)
            ELSE IF stack_env = "" THEN Raise(E_STACK_CONTEXT, <<stack_task>>)
            ELSE IF stack_env # stack_task
                 THEN Raise(E_STACK_MISMATCH, <<stack_env, stack_task>>)
            ELSE Ret(stack_env = stack_task)

\* ------------------------------------------------------------------ BaseMetadata

\* _require_base_metadata
RequireBaseMetadata(c, fm) ==
    LET hs_kind == HsKind(fm) IN
    IF hs_kind \notin {"parent", "track", "component"}
    THEN Raise(E_KIND_BASE, <<>>)
    ELSE IF hs_kind = "parent" THEN Ret(TRUE)
    ELSE IF Strip(fm.base_task) = "" THEN Raise(E_BASE_TASK, <<CtxTaskId(c)>>)
    ELSE IF hs_kind = "component" /\ Strip(fm.base_worktree) = ""
         THEN Raise(E_BASE_WORKTREE, <<CtxTaskId(c)>>)
    ELSE Ret(TRUE)

\* ------------------------------------------------------------------ WorktreeComponentDirs

\* The suffix of a component's override variables: c.upper().replace('-', '_')
EnvSuffix(c) == ReplaceDash(Upper(c))

UnsetVar == [primary |-> <<>>, legacy |-> <<>>]

\* environ.get(KEY) and environ.get(LEGACY) of a component (unset: empty).
DirVars(envd, c) ==
    IF EnvSuffix(c) \in DOMAIN envd THEN envd[EnvSuffix(c)] ELSE UnsetVar

\* str(environ.get(key) or environ.get(legacy) or "").strip(), and the
\* separator-normalized form the worktree test reads.
ComponentPath(envd, c) ==
    PathStrip(OrElse(DirVars(envd, c).primary, DirVars(envd, c).legacy, <<>>))

\* Faulty variant: the path's separators are not normalized.
IsWorktreePathNoNormalize(path) == Contains(path, WorktreeSegment)

\* "/components/.worktrees/" in path.replace("\\", "/")
IsWorktreePath(path) == Contains(ReplaceBackslash(path), WorktreeSegment)

\* The component set of a task, as _require_worktree_component_dirs derives it.
DeclaredComponents(fm) ==
    IF HsKind(fm) = "track" THEN ComponentsOf(fm.components)
    ELSE IF Strip(fm.component) # "" THEN <<Strip(fm.component)>>
    ELSE ComponentsOf(fm.components)

\* Faulty variant: only the first component's directory is checked.
CheckComponentDirsFirstOnly(envd, comps) ==
    IF comps = <<>> THEN Ret(TRUE)
    ELSE IF ComponentPath(envd, comps[1]) = <<>>
         THEN Raise(E_DIR_MISSING, <<comps[1]>>)
    ELSE IF ~IsWorktreePath(ComponentPath(envd, comps[1]))
         THEN Raise(E_NOT_WORKTREE, <<comps[1]>>)
    ELSE Ret(TRUE)

\* The `for c in comps` loop: the error of the first component that fails.
CheckComponentDirs(envd, comps) ==
    LET RECURSIVE Loop(_)
        Loop(i) ==
            IF i > Len(comps) THEN Ret(TRUE)
            ELSE IF ComponentPath(envd, comps[i]) = <<>>
                 THEN Raise(E_DIR_MISSING, <<comps[i]>>)
            ELSE IF ~IsWorktreePath(ComponentPath(envd, comps[i]))
                 THEN Raise(E_NOT_WORKTREE, <<comps[i]>>)
            ELSE Loop(i + 1)
    IN Loop(1)

\* _require_worktree_component_dirs
RequireWorktreeComponentDirs(fm, envd) ==
    LET hs_kind == HsKind(fm)
        comps == DeclaredComponents(fm)
    IN IF hs_kind \notin {"track", "component"} THEN Raise(E_KIND_DIRS, <<>>)
       ELSE IF hs_kind = "component" /\ Len(comps) # 1
            THEN Raise(E_ONE_COMPONENT, <<>>)
       ELSE IF comps = <<>> THEN Raise(E_DECLARE_COMPONENTS, <<>>)
       ELSE CheckComponentDirs(envd, comps)

\* ------------------------------------------------------------------ ParentStructure

\* _get_parent_id_from_relationships: the stripped target of the first
\* mapping entry of type "parent" ("" for None).
GetParentIdFromRelationships(fm) ==
    LET rels == fm.relationships
        RECURSIVE Scan(_)
        Scan(i) ==
            IF i > Len(rels.v) THEN ""
            ELSE IF rels.v[i].mapping /\ Strip(rels.v[i].type) = "parent"
                 THEN Strip(rels.v[i].target)
            ELSE Scan(i + 1)
    IN IF rels.t # "list" THEN "" ELSE Scan(1)

\* Whether _require_parent_subtask_structure reaches the repository.
NeedsParentLookup(fm) ==
    /\ HsKind(fm) \in {"track", "component"}
    /\ GetParentIdFromRelationships(fm) # ""

\* The parent's front-matter as the checker sees it: a failure of get_path,
\* of the read or of the parse, or a non-mapping, gives the empty mapping.
ParentFm(pl) == IF pl.doc = "mapping" THEN pl.fm ELSE EmptyFm

\* Faulty variant: a track task is accepted under any existing parent.
RequireParentSubtaskStructureAnyParent(c, fm, pl) ==
    LET hs_kind == HsKind(fm)
        parent_id == GetParentIdFromRelationships(fm)
        parent_kind == HsKind(ParentFm(pl))
    IN IF hs_kind \notin {"parent", "track", "component"}
       THEN Raise(E_KIND_STRUCT, <<>>)
       ELSE IF hs_kind = "parent"
            THEN Raise(E_PARENT_TASK, <<OrElse(CtxTaskId(c), "<parent-task-id>", "")>>)
       ELSE IF parent_id = "" THEN Raise(E_NO_PARENT_REL, <<>>)
       ELSE IF pl.ctor = "raise" \/ pl.get = "raise" THEN Raise(E_COLLABORATOR, <<>>)
       ELSE IF pl.get = "missing" THEN Raise(E_PARENT_NOT_FOUND, <<parent_id>>)
       ELSE IF hs_kind = "track"
            THEN (IF Strip(fm.track) = "" THEN Raise(E_TRACK_NAME, <<>>)
                  ELSE IF ComponentsOf(fm.components) = <<>>
                       THEN Raise(E_TRACK_COMPONENTS, <<>>)
                  ELSE Ret(TRUE))
       ELSE IF parent_kind # "track"
            THEN Raise(E_COMPONENT_PARENT_KIND, <<parent_id, parent_kind>>)
       ELSE IF /\ Strip(ParentFm(pl).stack) # ""
               /\ Strip(fm.stack) # ""
               /\ Strip(ParentFm(pl).stack) # Strip(fm.stack)
            THEN Raise(E_COMPONENT_STACK, <<Strip(ParentFm(pl).stack), Strip(fm.stack)>>)
       ELSE Ret(TRUE)

\* Faulty variant: a parent task is let through.
RequireParentSubtaskStructureParentOk(c, fm, pl) ==
    IF HsKind(fm) = "parent" THEN Ret(TRUE)
    ELSE RequireParentSubtaskStructureAnyParent(c, fm, pl)

\* _require_parent_subtask_structure
RequireParentSubtaskStructure(c, fm, pl) ==
    LET hs_kind == HsKind(fm)
        parent_id == GetParentIdFromRelationships(fm)
        parent_kind == HsKind(ParentFm(pl))
        parent_stack == Strip(ParentFm(pl).stack)
        this_stack == Strip(fm.stack)
    IN IF hs_kind \notin {"parent", "track", "component"}
       THEN Raise(E_KIND_STRUCT, <<>>)
       ELSE IF hs_kind = "parent"
            THEN Raise(E_PARENT_TASK, <<OrElse(CtxTaskId(c), "<parent-task-id>", "")>>)
       ELSE IF parent_id = "" THEN Raise(E_NO_PARENT_REL, <<>>)
       ELSE IF pl.ctor = "raise" \/ pl.get = "raise" THEN Raise(E_COLLABORATOR, <<>>)
       ELSE IF pl.get = "missing" THEN Raise(E_PARENT_NOT_FOUND, <<parent_id>>)
       ELSE IF hs_kind = "track"
            THEN (IF parent_kind # "parent"
                  THEN Raise(E_TRACK_PARENT_KIND, <<parent_id, parent_kind>>)
                  ELSE IF Strip(fm.track) = "" THEN Raise(E_TRACK_NAME, <<>>)
                  ELSE IF ComponentsOf(fm.components) = <<>>
                       THEN Raise(E_TRACK_COMPONENTS, <<>>)
                  ELSE Ret(TRUE))
       ELSE IF parent_kind # "track"
            THEN Raise(E_COMPONENT_PARENT_KIND, <<parent_id, parent_kind>>)
       ELSE IF parent_stack # "" /\ this_stack # "" /\ parent_stack # this_stack
            THEN Raise(E_COMPONENT_STACK, <<parent_stack, this_stack>>)
       ELSE Ret(TRUE)

\* The repository calls _require_parent_subtask_structure makes.
ParentCalls(c, fm, pl, resolves) ==
    IF ~NeedsParentLookup(fm) THEN <<>>
    ELSE <<Call("TaskRepository", GetProjectRoot(c, resolves))>>
         \o (IF pl.ctor = "raise" THEN <<>>
             ELSE <<Call("get", GetParentIdFromRelationships(fm))>>
                  \o (IF pl.get = "found"
                      THEN <<Call("get_path", GetParentIdFromRelationships(fm))>>
                      ELSE <<>>))

\* ------------------------------------------------------------------ inputs

\* Sequences over S of length lo..hi.
SeqsOf(S, lo, hi) == UNION {[1..n -> S] : n \in lo..hi}

Guards == {"start", "finish"}

NoTask == [mapping |-> FALSE, id |-> ""]
NoRoot == [t |-> "none", v |-> ""]

\* Call contexts: no identifier at all (two ways), and each way of giving one.
Contexts ==
    { [task_id |-> "", entity_id |-> "", task |-> NoTask, project_root |-> NoRoot],
      [task_id |-> "", entity_id |-> "",
       task |-> [mapping |-> TRUE, id |-> ""],
       project_root |-> [t |-> "str", v |-> "/proj"]],
      [task_id |-> "T1", entity_id |-> "", task |-> NoTask, project_root |-> NoRoot],
      [task_id |-> "", entity_id |-> "E1", task |-> NoTask,
       project_root |-> [t |-> "str", v |-> "/proj"]],
      [task_id |-> "", entity_id |-> "",
       task |-> [mapping |-> TRUE, id |-> "N1"],
       project_root |-> [t |-> "path", v |-> "/proj"]] }

HsKinds == {"", "parent", "track", "component", " Track "}
Stacks == {"", "s1"}
ComponentNames == {"happy", "happy-cli"}

\* `components` values: missing, a list, a blank str.
ComponentsValues ==
    {[t |-> "none", v |-> <<>>], [t |-> "str", v |-> <<" ">>]}
    \cup {[t |-> "list", v |-> l] : l \in SeqsOf(ComponentNames, 0, MaxComps)}

ParentRel(target) == [mapping |-> TRUE, type |-> "parent", target |-> target]

RelationshipsValues ==
    {[t |-> "none", v |-> <<>>], [t |-> "list", v |-> <<ParentRel("P1")>>]}

\* The front-matter mappings a guard call may load.
Frontmatters ==
    [hs_kind : HsKinds, stack : Stacks, base_task : {"", "T0"},
     base_worktree : {"", "edison/T1"}, track : {"", "upstream"},
     components : ComponentsValues, component : {"", "happy"},
     relationships : RelationshipsValues]

\* Behaviours of the loader's collaborators.
LoaderBehaviours ==
    { [root |-> TRUE, ctor |-> "raise", path |-> "ok", doc |-> "dict", fm |-> EmptyFm],
      [root |-> TRUE, ctor |-> "ok", path |-> "raise", doc |-> "dict", fm |-> EmptyFm],
      [root |-> FALSE, ctor |-> "ok", path |-> "ok", doc |-> "raise", fm |-> EmptyFm],
      [root |-> TRUE, ctor |-> "ok", path |-> "ok", doc |-> "nondict", fm |-> EmptyFm] }
    \cup {[root |-> TRUE, ctor |-> "ok", path |-> "ok", doc |-> "dict", fm |-> f] :
            f \in Frontmatters}

EnvUnread == [read |-> FALSE, primary |-> "", legacy |-> ""]
StackEnvs == [read : {TRUE}, primary : {"", "s1"}, legacy : {"", "s2"}]

\* Paths, as token sequences.
WorktreePath == <<"/", "repo", "/", "components", "/", ".worktrees", "/", "happy">>
WindowsWorktreePath == <<"C:", "BS", "repo", "BS", "components", "BS", ".worktrees", "BS", "happy">>
DefaultCheckoutPath == <<"/", "repo", "/", "components", "/", "happy">>
BlankPath == <<" ">>
PaddedWorktreePath == <<" ">> \o WorktreePath \o <<" ">>

DirsUnread == [read |-> FALSE, vars |-> [k \in {} |-> UnsetVar]]
DirVarValues ==
    [primary : {<<>>, WorktreePath, DefaultCheckoutPath},
     legacy : {<<>>, WindowsWorktreePath}]
DirEnvs == [read : {TRUE}, vars : [{"HAPPY", "HAPPY_CLI"} -> DirVarValues]]

\* The repository's answers about a parent task.
NoLookup ==
    [done |-> FALSE, root |-> TRUE, ctor |-> "ok", get |-> "missing", doc |-> "raise",
     fm |-> EmptyFm]
ParentDoc(kind, stack) == [EmptyFm EXCEPT !.hs_kind = kind, !.stack = stack]
ParentLookups ==
    { [done |-> TRUE, root |-> TRUE, ctor |-> "raise", get |-> "missing", doc |-> "raise", fm |-> EmptyFm],
      [done |-> TRUE, root |-> TRUE, ctor |-> "ok", get |-> "raise", doc |-> "raise", fm |-> EmptyFm],
      [done |-> TRUE, root |-> FALSE, ctor |-> "ok", get |-> "missing", doc |-> "raise", fm |-> EmptyFm],
      [done |-> TRUE, root |-> TRUE, ctor |-> "ok", get |-> "found", doc |-> "raise", fm |-> EmptyFm],
      [done |-> TRUE, root |-> TRUE, ctor |-> "ok", get |-> "found", doc |-> "nonmapping", fm |-> EmptyFm] }
    \cup {[done |-> TRUE, root |-> TRUE, ctor |-> "ok", get |-> "found", doc |-> "mapping",
           fm |-> ParentDoc(k, s)] :
            k \in {"", "parent", "track"}, s \in {"", "s1", "s2"}}

\* ------------------------------------------------------------------ the guards

\* The builtin predicate an entry point delegates to.
BasePredicate(g) == IF g = "start" THEN "can_start_task" ELSE "can_finish_task"

\* Faulty variant: ParentStructure is evaluated after BaseMetadata.
CanStartTaskCheckersSwapped ==
    <<"StackContext", "BaseMetadata", "ParentStructure", "WorktreeComponentDirs">>

\* The `and` chain of can_start_task.
CanStartTaskCheckers ==
    <<"StackContext", "ParentStructure", "BaseMetadata", "WorktreeComponentDirs">>

\* The `and` chain of can_finish_task.
CanFinishTaskCheckers ==
    <<"StackContext", "ParentStructure", "BaseMetadata", "WorktreeComponentDirs">>

Checkers(g) == IF g = "start" THEN CanStartTaskCheckers ELSE CanFinishTaskCheckers

\* The checker the `and` chain evaluates next ("" when none).
NextChecker ==
    IF pc = "check" /\ Len(evaluated) < Len(Checkers(guard))
    THEN Checkers(guard)[Len(evaluated) + 1]
    ELSE ""

\* One operand of the `and` chain has been evaluated to r: a raise ends the
\* call, a falsy value is the chain's value, a truthy one goes on to the
\* next operand or, after the last, is the chain's value.
Advance(name, r) ==
    /\ evaluated' = Append(evaluated, name)
    /\ results' = Append(results, r)
    /\ IF r.kind = "raise" \/ ~r.value \/ Len(evaluated) + 1 = Len(Checkers(guard))
       THEN outcome' = r /\ pc' = "done"
       ELSE outcome' = outcome /\ pc' = "check"

Init ==
    /\ guard \in Guards
    /\ ctx \in Contexts
    /\ pc = "base"
    /\ base = [pred |-> "", result |-> "unset"]
    /\ loaded = NotLoaded
    /\ envStack = EnvUnread
    /\ envDirs = DirsUnread
    /\ parentLookup = NoLookup
    /\ evaluated = <<>>
    /\ results = <<>>
    /\ repoCalls = <<>>
    /\ outcome = Pending

\* Faulty variant: an exception of the builtin predicate is not caught.
CallBaseNoCatch ==
    /\ pc = "base"
    /\ \E r \in {"true", "false", "raise"} :
        /\ base' = [pred |-> BasePredicate(guard), result |-> r]
        /\ IF r = "true" THEN pc' = "load" /\ outcome' = outcome
           ELSE IF r = "false" THEN pc' = "done" /\ outcome' = Ret(FALSE)
           ELSE pc' = "done" /\ outcome' = Raise(E_COLLABORATOR, <<>>)
    /\ UNCHANGED <<guard, ctx, loaded, envStack, envDirs, parentLookup,
                   evaluated, results, repoCalls>>

\* The try block around the builtin predicate: False when it returns a falsy
\* value or raises.
CallBase ==
    /\ pc = "base"
    /\ \E r \in {"true", "false", "raise"} :
        /\ base' = [pred |-> BasePredicate(guard), result |-> r]
        /\ IF r = "true"
           THEN pc' = "load" /\ outcome' = outcome
           ELSE pc' = "done" /\ outcome' = Ret(FALSE)
    /\ UNCHANGED <<guard, ctx, loaded, envStack, envDirs, parentLookup,
                   evaluated, results, repoCalls>>

\* fm = _load_task_frontmatter(ctx); a non-mapping raises.
LoadFrontmatter ==
    /\ pc = "load"
    /\ \E rd \in LoaderBehaviours :
        LET l == LoadTaskFrontmatter(ctx, rd) IN
        /\ loaded' = l
        /\ repoCalls' = repoCalls \o LoaderCalls(ctx, rd)
        /\ IF l.kind = "fm" THEN pc' = "check" /\ outcome' = outcome
           ELSE IF l.kind = "none"
                THEN pc' = "done" /\ outcome' = Raise(E_NO_FRONTMATTER, <<>>)
           ELSE pc' = "done" /\ outcome' = Raise(E_COLLABORATOR, <<>>)
    /\ UNCHANGED <<guard, ctx, base, envStack, envDirs, parentLookup,
                   evaluated, results>>

StackContextStep ==
    /\ NextChecker = "StackContext"
    /\ \E e \in StackEnvs :
        /\ envStack' = IF HsKind(loaded.fm) = "parent" THEN envStack ELSE e
        /\ Advance("StackContext", RequireStackContext(ctx, loaded.fm, e))
    /\ UNCHANGED <<guard, ctx, base, loaded, envDirs, parentLookup, repoCalls>>

ParentStructureStep ==
    /\ NextChecker = "ParentStructure"
    /\ \E pl \in ParentLookups :
        /\ parentLookup' = IF NeedsParentLookup(loaded.fm) THEN pl ELSE parentLookup
        /\ repoCalls' = repoCalls \o ParentCalls(ctx, loaded.fm, pl, pl.root)
        /\ Advance("ParentStructure", RequireParentSubtaskStructure(ctx, loaded.fm, pl))
    /\ UNCHANGED <<guard, ctx, base, loaded, envStack, envDirs>>

BaseMetadataStep ==
    /\ NextChecker = "BaseMetadata"
    /\ Advance("BaseMetadata", RequireBaseMetadata(ctx, loaded.fm))
    /\ UNCHANGED <<guard, ctx, base, loaded, envStack, envDirs, parentLookup, repoCalls>>

\* Whether _require_worktree_component_dirs reaches its environment reads.
ReadsDirVars(fm) ==
    /\ HsKind(fm) \in {"track", "component"}
    /\ DeclaredComponents(fm) # <<>>
    /\ HsKind(fm) = "component" => Len(DeclaredComponents(fm)) = 1

WorktreeComponentDirsStep ==
    /\ NextChecker = "WorktreeComponentDirs"
    /\ \E e \in DirEnvs :
        /\ envDirs' = IF ReadsDirVars(loaded.fm) THEN e ELSE envDirs
        /\ Advance("WorktreeComponentDirs", RequireWorktreeComponentDirs(loaded.fm, e.vars))
    /\ UNCHANGED <<guard, ctx, base, loaded, envStack, parentLookup, repoCalls>>

Next ==
    \/ CallBase
    \/ LoadFrontmatter
    \/ StackContextStep
    \/ ParentStructureStep
    \/ BaseMetadataStep
    \/ WorktreeComponentDirsStep

Spec == Init /\ [][Next]_vars

\* ------------------------------------------------------------------ the checkers alone

\* Each rule-checker called on its own, on every input of a wider set.

UnitContext ==
    [task_id |-> "T1", entity_id |-> "", task |-> NoTask, project_root |-> NoRoot]

InitUnit(fms) ==
    /\ guard = "start"
    /\ ctx = UnitContext
    /\ pc = "unit"
    /\ base = [pred |-> "", result |-> "unset"]
    /\ loaded \in {LoadFm(f) : f \in fms}
    /\ envStack = EnvUnread
    /\ envDirs = DirsUnread
    /\ parentLookup = NoLookup
    /\ evaluated = <<>>
    /\ results = <<>>
    /\ repoCalls = <<>>
    /\ outcome = Pending

StackContextFms ==
    {[EmptyFm EXCEPT !.hs_kind = k, !.stack = st] :
        k \in {"", "parent", "PARENT", "track", " Track ", "component"},
        st \in {"", " ", "s1", " s1 ", "s2"}}

StackEnvsAll ==
    [read : {TRUE}, primary : {"", " ", "s1", " s1 "}, legacy : {"", "s1", "s2"}]

CallStackContext ==
    /\ pc = "unit"
    /\ \E e \in StackEnvsAll :
        /\ envStack' = e
        /\ outcome' = RequireStackContext(ctx, loaded.fm, e)
    /\ pc' = "done"
    /\ evaluated' = <<"StackContext">>
    /\ results' = <<outcome'>>
    /\ UNCHANGED <<guard, ctx, base, loaded, envDirs, parentLookup, repoCalls>>

SpecStackContext == InitUnit(StackContextFms) /\ [][CallStackContext]_vars

RelEntries ==
    { ParentRel("P1"), ParentRel(""),
      [mapping |-> TRUE, type |-> "child", target |-> "C1"],
      [mapping |-> FALSE, type |-> "", target |-> ""] }

ParentStructureFms ==
    {[EmptyFm EXCEPT !.hs_kind = k, !.stack = st, !.track = tr,
                     !.components = cs, !.relationships = rl] :
        k \in {"", "parent", "track", " Track ", "component"},
        st \in {"", "s1", " s1 "},
        tr \in {"", "upstream"},
        cs \in {[t |-> "none", v |-> <<>>], [t |-> "list", v |-> <<"happy">>],
                [t |-> "list", v |-> <<" ">>], [t |-> "str", v |-> <<"happy", " ">>]},
        rl \in {[t |-> "none", v |-> <<>>]}
               \cup {[t |-> "list", v |-> l] : l \in SeqsOf(RelEntries, 0, MaxRels)}}

ParentLookupsAll ==
    ParentLookups
    \cup {[done |-> TRUE, root |-> TRUE, ctor |-> "ok", get |-> "found", doc |-> "mapping",
           fm |-> ParentDoc(k, s)] : k \in {"PARENT", "component"}, s \in {"", " s1 "}}

CallParentStructure ==
    /\ pc = "unit"
    /\ \E pl \in ParentLookupsAll :
        /\ parentLookup' = pl
        /\ repoCalls' = ParentCalls(ctx, loaded.fm, pl, pl.root)
        /\ outcome' = RequireParentSubtaskStructure(ctx, loaded.fm, pl)
    /\ pc' = "done"
    /\ evaluated' = <<"ParentStructure">>
    /\ results' = <<outcome'>>
    /\ UNCHANGED <<guard, ctx, base, loaded, envStack, envDirs>>

SpecParentStructure == InitUnit(ParentStructureFms) /\ [][CallParentStructure]_vars

WorktreeDirsFms ==
    {[EmptyFm EXCEPT !.hs_kind = k, !.components = cs, !.component = c] :
        k \in {"", "parent", "track", " Track ", "component"},
        cs \in {[t |-> "none", v |-> <<>>]}
               \cup {[t |-> "list", v |-> l] :
                        l \in SeqsOf({"happy", "happy-cli", " "}, 0, MaxComps)}
               \cup {[t |-> "str", v |-> l] :
                        l \in SeqsOf({"happy", " happy ", " "}, 1, MaxComps)},
        c \in {"", " ", "happy-cli"}}

DirEnvsAll ==
    {[read |-> TRUE, vars |-> [HAPPY |-> h, HAPPY_CLI |-> c]] :
        h \in [primary : {<<>>, BlankPath, WorktreePath, DefaultCheckoutPath},
               legacy : {<<>>, WindowsWorktreePath, PaddedWorktreePath}],
        c \in DirVarValues}

CallWorktreeComponentDirs ==
    /\ pc = "unit"
    /\ \E e \in DirEnvsAll :
        /\ envDirs' = e
        /\ outcome' = RequireWorktreeComponentDirs(loaded.fm, e.vars)
    /\ pc' = "done"
    /\ evaluated' = <<"WorktreeComponentDirs">>
    /\ results' = <<outcome'>>
    /\ UNCHANGED <<guard, ctx, base, loaded, envStack, parentLookup, repoCalls>>

SpecWorktreeDirs == InitUnit(WorktreeDirsFms) /\ [][CallWorktreeComponentDirs]_vars

\* ------------------------------------------------------------------ properties

Done == pc = "done"
BasePassed == base.result = "true"
Fm == loaded.fm
OrderOfRules ==
    <<"StackContext", "ParentStructure", "BaseMetadata", "WorktreeComponentDirs">>

\* The environment's active stack name: the primary variable when set and
\* non-empty, else the legacy alias; surrounding white space dropped.
ActiveStack(e) == IF e.primary # "" THEN Strip(e.primary) ELSE Strip(e.legacy)

\* A component's directory override: the primary variable when set and
\* non-empty, else the legacy alias; surrounding white space dropped.
Override(vs, c) ==
    LET v == IF EnvSuffix(c) \in DOMAIN vs THEN vs[EnvSuffix(c)] ELSE UnsetVar
    IN PathStrip(IF v.primary # <<>> THEN v.primary ELSE v.legacy)

InWorktree(path) == Contains(ReplaceBackslash(path), WorktreeSegment)

\* The task has a parent-type relationship record with a target.
HasParentRelationship(fm) ==
    /\ fm.relationships.t = "list"
    /\ \E i \in 1..Len(fm.relationships.v) :
        /\ fm.relationships.v[i].mapping
        /\ Strip(fm.relationships.v[i].type) = "parent"
        /\ Strip(fm.relationships.v[i].target) # ""

\* C1: a guard called on a readable task of hs_kind parent, after the base
\* predicate passed, ends by raising the refusing-a-parent-task error, whatever
\* the task's other fields and the environment hold: it never returns and
\* never raises another error, and it does not stop before raising.
C1_ParentTaskRefused ==
    (loaded.kind = "fm" /\ HsKind(Fm) = "parent") =>
        /\ BasePassed
        /\ IF Done
           THEN outcome.kind = "raise" /\ outcome.err = E_PARENT_TASK
           ELSE outcome = Pending /\ ENABLED Next

C1_Witness ==
    /\ Done /\ guard = "finish" /\ loaded.kind = "fm" /\ HsKind(Fm) = "parent"
    /\ Fm.stack = "" /\ Fm.relationships.t = "list" /\ Fm.base_task = ""
    /\ outcome.err = E_PARENT_TASK

\* C2: when the base predicate returns false or raises, the guard returns
\* False: it raises nothing, loads no front-matter, calls no repository and
\* evaluates no rule-checker.
C2_FailClosedDelegation ==
    base.result \in {"false", "raise"} =>
        /\ Done
        /\ outcome = Ret(FALSE)
        /\ loaded = NotLoaded
        /\ evaluated = <<>> /\ results = <<>> /\ repoCalls = <<>>
        /\ ~envStack.read /\ ~envDirs.read /\ ~parentLookup.done

C2_Witness ==
    /\ Done /\ guard = "finish" /\ base.result = "raise"
    /\ base.pred = "can_finish_task" /\ outcome = Ret(FALSE)

\* C3: a guard that returns True was called on a task for which the base
\* predicate passed, whose hs_kind is track or component, whose stack is
\* non-empty and is the environment's active stack, which has a parent
\* relationship to an existing task of hs_kind parent (track) or track
\* (component), whose base_task (and base_worktree, for a component) is set,
\* and each of whose declared components has a non-empty directory override
\* that points into /components/.worktrees/.
C3_PassingGuardIsSound ==
    (outcome.kind = "return" /\ outcome.value) =>
        /\ Done /\ BasePassed /\ loaded.kind = "fm"
        /\ HsKind(Fm) \in {"track", "component"}
        /\ Strip(Fm.stack) # ""
        /\ envStack.read /\ Strip(Fm.stack) = ActiveStack(envStack)
        /\ HasParentRelationship(Fm)
        /\ parentLookup.done /\ parentLookup.ctor = "ok" /\ parentLookup.get = "found"
        /\ parentLookup.doc = "mapping"
        /\ Lower(Strip(parentLookup.fm.hs_kind))
             = (IF HsKind(Fm) = "track" THEN "parent" ELSE "track")
        /\ Strip(Fm.base_task) # ""
        /\ HsKind(Fm) = "component" => Strip(Fm.base_worktree) # ""
        /\ envDirs.read
        /\ (HsKind(Fm) = "component" /\ Strip(Fm.component) # "") =>
            /\ Override(envDirs.vars, Strip(Fm.component)) # <<>>
            /\ InWorktree(Override(envDirs.vars, Strip(Fm.component)))
        /\ (HsKind(Fm) = "track" \/ Strip(Fm.component) = "") =>
            /\ Fm.components.t \in {"list", "str"}
            /\ \E i \in 1..Len(Fm.components.v) : Strip(Fm.components.v[i]) # ""
            /\ \A i \in 1..Len(Fm.components.v) :
                 Strip(Fm.components.v[i]) # "" =>
                    /\ Override(envDirs.vars, Strip(Fm.components.v[i])) # <<>>
                    /\ InWorktree(Override(envDirs.vars, Strip(Fm.components.v[i])))

C3_Witness ==
    /\ Done /\ outcome = Ret(TRUE) /\ guard = "start"
    /\ HsKind(Fm) = "track" /\ Fm.components.v = <<"happy", "happy-cli">>
    /\ envDirs.vars["HAPPY"].primary = <<>>
    /\ envDirs.vars["HAPPY"].legacy = WindowsWorktreePath

\* C4 as stated: a finished guard has returned False exactly when the base
\* predicate failed or raised, or no task identifier could be resolved.
C4_Original ==
    Done => ((outcome = Ret(FALSE))
               <=> (base.result \in {"false", "raise"} \/ ResolveTaskId(ctx) = ""))

\* C4, amended: a finished guard has returned False exactly when the base
\* predicate failed or raised.  After the base predicate passed, a call with
\* no resolvable task identifier raises the cannot-read-front-matter error,
\* every rule-checker either passed or raised (none returned False), and the
\* guard either returned True or raised.
C4_OutcomeChannels ==
    Done =>
        /\ (outcome = Ret(FALSE)) <=> (base.result \in {"false", "raise"})
        /\ (BasePassed /\ ResolveTaskId(ctx) = "") =>
              outcome = Raise(E_NO_FRONTMATTER, <<>>)
        /\ BasePassed => (outcome = Ret(TRUE) \/ outcome.kind = "raise")
        /\ \A i \in 1..Len(results) : results[i] = Ret(TRUE) \/ results[i].kind = "raise"

C4_Witness ==
    /\ Done /\ BasePassed /\ ResolveTaskId(ctx) = "" /\ ctx.task.mapping
    /\ outcome = Raise(E_NO_FRONTMATTER, <<>>)

\* C5 as stated: the loader never raises (it yields a mapping or no
\* metadata), and no metadata after a passing base predicate makes the guard
\* raise the cannot-read-front-matter error.
C5_LoaderNeverRaises ==
    /\ loaded.kind \in {"unloaded", "fm", "none"}
    /\ loaded.kind = "none" => outcome = Raise(E_NO_FRONTMATTER, <<>>)

\* C6: StackContext returns True for a parent task whatever the task's stack
\* and the environment hold.  For any other task it returns True exactly when
\* the task's stack and the environment's active stack name (primary variable,
\* else legacy alias) are both non-empty and equal; otherwise it raises the
\* missing-stack-key error when the task's stack is empty (in any environment),
\* else the missing-stack-context error when the environment names no stack,
\* else the stack-mismatch error showing both values.  It never returns False.
C6_StackContext ==
    Done =>
        /\ outcome = Ret(TRUE) \/ outcome.kind = "raise"
        /\ HsKind(Fm) = "parent" => outcome = Ret(TRUE)
        /\ HsKind(Fm) # "parent" =>
            /\ (outcome = Ret(TRUE)) <=>
                  /\ Strip(Fm.stack) # ""
                  /\ ActiveStack(envStack) # ""
                  /\ Strip(Fm.stack) = ActiveStack(envStack)
            /\ Strip(Fm.stack) = "" => outcome = Raise(E_STACK_KEY, <<>>)
            /\ (Strip(Fm.stack) # "" /\ ActiveStack(envStack) = "") =>
                  outcome = Raise(E_STACK_CONTEXT, <<Strip(Fm.stack)>>)
            /\ (/\ Strip(Fm.stack) # ""
                /\ ActiveStack(envStack) # ""
                /\ Strip(Fm.stack) # ActiveStack(envStack)) =>
                  outcome = Raise(E_STACK_MISMATCH,
                                  <<ActiveStack(envStack), Strip(Fm.stack)>>)

C6_Witness ==
    /\ Done /\ HsKind(Fm) = "track" /\ Fm.stack = " s1 "
    /\ envStack.primary = "" /\ envStack.legacy = "s1"
    /\ outcome = Ret(TRUE)

\* The parent task's front-matter could not be loaded.
ParentUnreadable ==
    /\ parentLookup.ctor = "ok" /\ parentLookup.get = "found"
    /\ parentLookup.doc \in {"raise", "nonmapping"}

\* C7: ParentStructure passes a track task only if it has a parent-type
\* relationship to an existing task of hs_kind parent and declares a non-empty
\* track name and non-empty components; it passes a component task only if its
\* parent exists with hs_kind track and the two stacks, when both non-empty,
\* are equal; it passes no other task.  A parent whose front-matter cannot be
\* loaded counts as an empty mapping: the check raises the parent-kind error.
C7_ParentStructure ==
    Done =>
        /\ outcome = Ret(TRUE) => HsKind(Fm) \in {"track", "component"}
        /\ (outcome = Ret(TRUE) /\ HsKind(Fm) = "track") =>
            /\ HasParentRelationship(Fm)
            /\ parentLookup.get = "found" /\ parentLookup.doc = "mapping"
            /\ Lower(Strip(parentLookup.fm.hs_kind)) = "parent"
            /\ Strip(Fm.track) # ""
            /\ Fm.components.t \in {"list", "str"}
            /\ \E i \in 1..Len(Fm.components.v) : Strip(Fm.components.v[i]) # ""
        /\ (outcome = Ret(TRUE) /\ HsKind(Fm) = "component") =>
            /\ HasParentRelationship(Fm)
            /\ parentLookup.get = "found" /\ parentLookup.doc = "mapping"
            /\ Lower(Strip(parentLookup.fm.hs_kind)) = "track"
            /\ (Strip(Fm.stack) # "" /\ Strip(parentLookup.fm.stack) # "") =>
                  Strip(Fm.stack) = Strip(parentLookup.fm.stack)
        /\ (ParentUnreadable /\ NeedsParentLookup(Fm)) =>
            /\ outcome.kind = "raise"
            /\ outcome.err = (IF HsKind(Fm) = "track" THEN E_TRACK_PARENT_KIND
                              ELSE E_COMPONENT_PARENT_KIND)

C7_Witness ==
    /\ Done /\ HsKind(Fm) = "component" /\ outcome = Ret(TRUE)
    /\ Fm.stack = " s1 " /\ parentLookup.fm.stack = "s1"
    /\ Len(Fm.relationships.v) = 2

\* The components a task declares, for _require_worktree_component_dirs.
Declared(fm) ==
    IF HsKind(fm) = "component" /\ Strip(fm.component) # ""
    THEN <<Strip(fm.component)>>
    ELSE IF fm.components.t \in {"list", "str"}
         THEN SelectSeq([i \in 1..Len(fm.components.v) |-> Strip(fm.components.v[i])],
                        LAMBDA x : x # "")
         ELSE <<>>

DirOk(c) == Override(envDirs.vars, c) # <<>> /\ InWorktree(Override(envDirs.vars, c))

\* The first declared component whose override fails a check (0 when none).
FirstBad(comps) ==
    IF \A i \in 1..Len(comps) : DirOk(comps[i]) THEN 0
    ELSE CHOOSE i \in 1..Len(comps) :
            ~DirOk(comps[i]) /\ \A j \in 1..(i - 1) : DirOk(comps[j])

\* C8 as stated: WorktreeComponentDirs returns True only if the kind is track
\* or component, the derived set is non-empty (one member for a component) and
\* every override is set and in a worktree; in every other case it raises one
\* of four errors: exactly-one-component for a component task declaring two or
\* more, must-declare-component(s) when the derived set is empty, the
\* missing-override error, or the not-a-worktree-path error.
C8_Original ==
    Done =>
        /\ outcome = Ret(TRUE) =>
            /\ HsKind(Fm) \in {"track", "component"}
            /\ Declared(Fm) # <<>>
            /\ HsKind(Fm) = "component" => Len(Declared(Fm)) = 1
            /\ \A i \in 1..Len(Declared(Fm)) : DirOk(Declared(Fm)[i])
        /\ outcome # Ret(TRUE) =>
            /\ outcome.kind = "raise"
            /\ outcome.err \in {E_ONE_COMPONENT, E_DECLARE_COMPONENTS,
                                E_DIR_MISSING, E_NOT_WORKTREE}
        /\ (HsKind(Fm) = "component" /\ Len(Declared(Fm)) >= 2) =>
              outcome.err = E_ONE_COMPONENT
        /\ (HsKind(Fm) \in {"track", "component"} /\ Declared(Fm) = <<>>) =>
              outcome.err = E_DECLARE_COMPONENTS

\* C8, amended: WorktreeComponentDirs returns True exactly when the kind is
\* track or component, the derived set is non-empty (one member for a
\* component) and every declared component's override is non-empty and in a
\* worktree.  Otherwise it raises: the missing/invalid-hs_kind error when the
\* kind is neither track nor component; exactly-one-component for a component
\* task whose derived set has any size but one (none included);
\* must-declare-component(s) for a track task whose derived set is empty; else,
\* for the first declared component that fails, the missing-override error
\* naming it when its override is empty, or the not-a-worktree-path error.
C8_WorktreeComponentDirs ==
    Done =>
        LET comps == Declared(Fm)
            kind == HsKind(Fm)
            bad == FirstBad(comps)
        IN IF kind \notin {"track", "component"}
           THEN outcome = Raise(E_KIND_DIRS, <<>>)
           ELSE IF kind = "component" /\ Len(comps) # 1
           THEN outcome = Raise(E_ONE_COMPONENT, <<>>)
           ELSE IF comps = <<>>
           THEN kind = "track" /\ outcome = Raise(E_DECLARE_COMPONENTS, <<>>)
           ELSE IF bad = 0 THEN outcome = Ret(TRUE)
           ELSE IF Override(envDirs.vars, comps[bad]) = <<>>
           THEN outcome = Raise(E_DIR_MISSING, <<comps[bad]>>)
           ELSE outcome = Raise(E_NOT_WORKTREE, <<comps[bad]>>)

C8_Witness ==
    /\ Done /\ HsKind(Fm) = "component" /\ Declared(Fm) = <<>>
    /\ Fm.components.t = "list" /\ Fm.components.v = <<" ">>
    /\ outcome = Raise(E_ONE_COMPONENT, <<>>)

\* C9: in both guards the rule-checkers run in the order StackContext,
\* ParentStructure, BaseMetadata, WorktreeComponentDirs, after the base
\* predicate passed and the front-matter loaded; each one runs only when all
\* before it passed; the guard's outcome is the result of the last one run, so
\* the error raised is that of the first checker the task violates; and when
\* StackContext fails no parent task is looked up.
C9_OrderAndShortCircuit ==
    LET n == Len(evaluated) IN
    /\ n <= Len(OrderOfRules)
    /\ evaluated = SubSeq(OrderOfRules, 1, n)
    /\ Len(results) = n
    /\ n > 0 => (BasePassed /\ loaded.kind = "fm")
    /\ \A i \in 1..(n - 1) : results[i] = Ret(TRUE)
    /\ n >= 1 => results[1] = RequireStackContext(ctx, Fm, envStack)
    /\ n >= 2 => results[2] = RequireParentSubtaskStructure(ctx, Fm, parentLookup)
    /\ n >= 3 => results[3] = RequireBaseMetadata(ctx, Fm)
    /\ n >= 4 => results[4] = RequireWorktreeComponentDirs(Fm, envDirs.vars)
    /\ (Done /\ n > 0) =>
          /\ outcome = results[n]
          /\ outcome = Ret(TRUE) => n = Len(OrderOfRules)
    /\ ~Done => (outcome = Pending /\ (n > 0 => results[n] = Ret(TRUE)))
    /\ (n >= 1 /\ results[1] # Ret(TRUE)) =>
          /\ n = 1 /\ Done
          /\ ~parentLookup.done /\ ~envDirs.read
          /\ \A i \in 1..Len(repoCalls) : repoCalls[i].call # "get"

C9_Witness ==
    /\ Done /\ guard = "finish"
    /\ evaluated = <<"StackContext">>
    /\ outcome.err = E_STACK_MISMATCH
    /\ RequireBaseMetadata(ctx, Fm).err = E_BASE_TASK
    /\ HasParentRelationship(Fm)
    /\ Len(repoCalls) = 2

\* C10: whenever BaseMetadata or WorktreeComponentDirs is evaluated in a guard
\* call, the task's hs_kind is track or component and a track task's derived
\* component set is non-empty; so no guard call ends with the
\* missing/invalid-hs_kind error of either, with BaseMetadata's early return
\* for a parent, or with the must-declare-component(s) error.
C10_LateCheckersSeeValidKind ==
    /\ (\E i \in 1..Len(evaluated) :
            evaluated[i] \in {"BaseMetadata", "WorktreeComponentDirs"}) =>
          /\ HsKind(Fm) \in {"track", "component"}
          /\ HsKind(Fm) = "track" =>
                /\ Fm.components.t \in {"list", "str"}
                /\ \E j \in 1..Len(Fm.components.v) : Strip(Fm.components.v[j]) # ""
    /\ \A i \in 1..Len(results) :
          results[i].err \notin {E_KIND_BASE, E_KIND_DIRS, E_DECLARE_COMPONENTS}
    /\ outcome.err \notin {E_KIND_BASE, E_KIND_DIRS, E_DECLARE_COMPONENTS}

C10_Witness ==
    /\ Done /\ Len(evaluated) = 4 /\ HsKind(Fm) = "component"
    /\ Declared(Fm) = <<>>
    /\ outcome = Raise(E_ONE_COMPONENT, <<>>)

====
